---- MODULE Spec2Model ----
(***************************************************************************)
(* A model of the anti_debug crate: the honeypot thread correlator         *)
(* (src/src/thread/mod.rs), the NtQueryInformationProcess probes           *)
(* (src/src/nt_query/mod.rs), the hardware breakpoint probe                *)
(* (src/src/breakpoint/mod.rs), the PEB and process heap probes            *)
(* (src/src/peb/mod.rs) and the handler registry (src/src/exception.rs).   *)
(* The operating system is the environment: it owns the handle table, the  *)
(* thread contexts, the PEB, the heaps and the answers of the queries.     *)
(***************************************************************************)
EXTENDS Integers, Sequences, FiniteSets, TLC

VARIABLES
    \* ---- HoneyThread instance (thread/mod.rs:106-111)
    thread_handle,   \* Option<HANDLE>: << >> is None, <<h>> is Some(HANDLE(h))
    thread_object,   \* *mut c_void, Null when not resolved
    process_uid,     \* u32
    thread_uid,      \* u32
    dropped,         \* the instance went out of scope (Drop ran)
    \* ---- operating system, as the correlator sees it
    my_pid,          \* what GetCurrentProcessId returns
    threads,         \* threads CreateThread made: <<[handle, object, tid]>>
    closes,          \* closes[k]: CloseHandle calls on the handle of threads[k]
    foreign,         \* handle table entries of other processes
    \* ---- observation of the last call on the instance
    last_op, last_result, last_query, last_snapshot, pre_object,
    prev_result,     \* the result of the check just before the last one, if any
    \* ---- query_system_information (thread/mod.rs:223-251), step by step
    q_pc, handle_info_size, buf_cap, buf_entries, status, return_length,
    q_result, os_count, q_written, q_first_size, q_prev_ret, q_n, q_tick,
    \* ---- NtQueryInformationProcess answers and the last probe evaluated
    nt_port, nt_object, nt_flags, nt_op, nt_result,
    \* ---- thread context (debug registers) and the last breakpoint call
    dr, bp_op, bp_result, bp_cleaned,
    \* ---- the PEB of the process (peb/mod.rs:12-29), the heaps in memory
    \* ---- and the last result of each PEB probe
    being_debugged,  \* u8
    process_heap,    \* *const WinProcessHeap
    nt_global_flag,  \* u32
    heap_memory,     \* address |-> [flags, force_flags]
    peb_result,
    \* ---- Exception (exception.rs:7-9) and the last call on it
    handlers,        \* Vec of handlers, each named by the object it wraps
    ex_op, ex_result, ex_prev

honeyVars == <<thread_handle, thread_object, process_uid, thread_uid, dropped,
               my_pid, threads, closes, foreign,
               last_op, last_result, last_query, last_snapshot, pre_object,
               prev_result>>
queryVars == <<q_pc, handle_info_size, buf_cap, buf_entries, status,
               return_length, q_result, os_count, q_written, q_first_size,
               q_prev_ret, q_n, q_tick>>
ntVars == <<nt_port, nt_object, nt_flags, nt_op, nt_result>>
bpVars == <<dr, bp_op, bp_result, bp_cleaned>>
pebVars == <<being_debugged, process_heap, nt_global_flag, heap_memory,
             peb_result>>
exVars == <<handlers, ex_op, ex_result, ex_prev>>
vars == <<honeyVars, queryVars, ntVars, bpVars, pebVars, exVars>>

\* what an operation of one component leaves alone in the others
HoneyFrame == UNCHANGED <<queryVars, ntVars, bpVars, pebVars, exVars>>
QueryFrame == UNCHANGED <<honeyVars, ntVars, bpVars, pebVars, exVars>>
NtFrame == UNCHANGED <<honeyVars, queryVars, bpVars, pebVars, exVars>>
BpFrame == UNCHANGED <<honeyVars, queryVars, ntVars, pebVars, exVars>>
PebFrame == UNCHANGED <<honeyVars, queryVars, ntVars, bpVars, exVars>>
ExFrame == UNCHANGED <<honeyVars, queryVars, ntVars, bpVars, pebVars>>

(***************************************************************************)
(* Bounds of the model.                                                    *)
(***************************************************************************)
MaxThreads == 2      \* threads one instance may create
MaxForeign == 2      \* handle table entries held by other processes
MaxOver == 2         \* how far the handle count may exceed the initial guess
MaxDr == 2           \* largest debug register value
MaxHandlers == 3     \* handlers registered with one Exception

(***************************************************************************)
(* Program constants.                                                      *)
(***************************************************************************)
Null == 0
U16Mod == 65536          \* unique_process_id and handle_value are u16
InitialGuess == 65536    \* 0x10000
HeaderSize == 8          \* offset of handles[0] in SystemHandleInformation
EntrySize == 24          \* size of SystemHandleTableEntryInfo, 64-bit repr(C)

Max(a, b) == IF a >= b THEN a ELSE b
Min(a, b) == IF a <= b THEN a ELSE b

(***************************************************************************)
(* The environment's values.  Process ids and handle values on both sides  *)
(* of 2^16; 65544 and 8 agree on their low 16 bits, and so do 65540 and 4. *)
(***************************************************************************)
Pids == {8, 12, 65544}
MyPids == {8, 65544}
HandleValues == {4, 8, 65540}
ForeignHandleValues == {4}
ThreadObjectOf(k) == 4096 * k
OtherObject == 4096 * (MaxThreads + 1)
ThreadIdOf(k) == 100 + 4 * k


(***************************************************************************)
(* The system handle table.  An entry of the table is (owning process id,  *)
(* handle value, kernel object address); the snapshot the query returns    *)
(* holds them in SystemHandleTableEntryInfo records, whose                 *)
(* unique_process_id and handle_value are 16 bits wide.                    *)
(***************************************************************************)
OpenThreads == {k \in 1..Len(threads) : closes[k] = 0}
OwnEntries == {[pid |-> my_pid, handle |-> threads[k].handle,
                object |-> threads[k].object] : k \in OpenThreads}
HandleTable == OwnEntries \cup foreign

SystemHandleTableEntryInfo(e) ==
    [unique_process_id |-> e.pid % U16Mod,
     handle_value |-> e.handle % U16Mod,
     object |-> e.object]

EntryLess(a, b) ==
    \/ a.pid < b.pid
    \/ a.pid = b.pid /\ a.handle < b.handle
    \/ a.pid = b.pid /\ a.handle = b.handle /\ a.object < b.object

RECURSIVE Ascending(_)
Ascending(S) ==
    IF S = {} THEN << >>
    ELSE LET m == CHOOSE x \in S : \A y \in S : ~EntryLess(y, x)
         IN <<SystemHandleTableEntryInfo(m)>> \o Ascending(S \ {m})

Reverse(s) == [i \in 1..Len(s) |-> s[Len(s) + 1 - i]]

\* The snapshot lists every entry of the table; the order is the kernel's.
\* Two orders are drawn, so that either of two entries may come last.
Snapshots(tbl) == {Ascending(tbl), Reverse(Ascending(tbl))}

\* What query_system_information may return to check: an error, or the
\* buffer holding a snapshot of the table as it is at the final query.
query_system_information_results ==
    {[ok |-> FALSE, snap |-> << >>]}
    \cup {[ok |-> TRUE, snap |-> s] : s \in Snapshots(HandleTable)}

(***************************************************************************)
(* HoneyThread::check, thread/mod.rs:301-357.                              *)
(***************************************************************************)
HandleValueOf(h) == h[1]

\* a resolution that forgets to compare the process id
IsOwnThreadEntryAnyProcess(e, puid, h) == e.handle_value = HandleValueOf(h)

\* line 326: the entry is this process's entry for the honeypot handle
IsOwnThreadEntry(e, puid, h) ==
    e.unique_process_id = puid /\ e.handle_value = HandleValueOf(h)

\* lines 320-330: every entry is visited; the last match is kept
RECURSIVE ResolveLoop(_, _, _, _, _)
ResolveLoop(snap, i, puid, h, obj) ==
    IF i > Len(snap) THEN obj
    ELSE ResolveLoop(snap, i + 1, puid, h,
                     IF IsOwnThreadEntry(snap[i], puid, h)
                     THEN snap[i].object ELSE obj)

\* a check that resolves the object again on every call
ResolvedObjectEveryCall(snap, puid, h, obj) ==
    ResolveLoop(snap, 1, puid, h, obj)

\* lines 318-331: resolution runs only while thread_object is null
ResolvedObject(snap, puid, h, obj) ==
    IF obj = Null THEN ResolveLoop(snap, 1, puid, h, obj) ELSE obj

\* a scan that does not skip this process's own entries
IsForeignHolderNoSkip(e, puid, obj) == e.object = obj

\* lines 343-345 and 347-348: an entry of another process on the same object
IsForeignHolder(e, puid, obj) ==
    e.unique_process_id # puid /\ e.object = obj

\* lines 339-356: the first such entry returns true
RECURSIVE ScanLoop(_, _, _, _)
ScanLoop(snap, i, puid, obj) ==
    IF i > Len(snap) THEN FALSE
    ELSE IF IsForeignHolder(snap[i], puid, obj) THEN TRUE
    ELSE ScanLoop(snap, i + 1, puid, obj)

\* a guard that forgets the process id
InstanceValueErrorHandleOnly == thread_handle = << >>

\* line 302: the instance lacks its thread handle or its process id
InstanceValueError == thread_handle = << >> \/ process_uid = 0

\* The whole of check, given what the query returned.
CheckOutcome(q) ==
    IF InstanceValueError
    THEN [result |-> "Err(InstanceValue)", object |-> thread_object,
          query |-> "none", snap |-> {}]
    ELSE IF ~q.ok
    THEN [result |-> "Err(Query)", object |-> thread_object,
          query |-> "fail", snap |-> {}]
    ELSE LET obj == ResolvedObject(q.snap, process_uid, thread_handle,
                                   thread_object)
             seen == {q.snap[i] : i \in 1..Len(q.snap)}
         IN IF obj = Null
            THEN [result |-> "Err(ObjectNotFound)", object |-> obj,
                  query |-> "ok", snap |-> seen]
            ELSE [result |-> IF ScanLoop(q.snap, 1, process_uid, obj)
                             THEN "Ok(true)" ELSE "Ok(false)",
                  object |-> obj, query |-> "ok", snap |-> seen]

check ==
    /\ ~dropped
    /\ \E q \in query_system_information_results :
         LET out == CheckOutcome(q)
         IN /\ thread_object' = out.object
            /\ last_result' = out.result
            /\ last_query' = out.query
            /\ last_snapshot' = out.snap
    /\ pre_object' = thread_object
    /\ prev_result' = IF last_op = "check" THEN last_result ELSE "none"
    /\ last_op' = "check"
    /\ UNCHANGED <<thread_handle, process_uid, thread_uid, dropped, my_pid,
                   threads, closes, foreign>>
    /\ HoneyFrame

(***************************************************************************)
(* Arming: create_thread (170-192), create_thread_empty_func (207-209),    *)
(* set_honey_thread_current_process (266-276).                             *)
(***************************************************************************)
FreeHandleValues == HandleValues \ {threads[k].handle : k \in OpenThreads}

\* CreateThread succeeded with handle h: lines 189-190
CreateThreadOk(h) ==
    LET k == Len(threads) + 1
    IN /\ threads' = Append(threads, [handle |-> h,
                                      object |-> ThreadObjectOf(k),
                                      tid |-> ThreadIdOf(k)])
       /\ closes' = Append(closes, 0)
       /\ thread_handle' = <<h>>
       /\ thread_uid' = ThreadIdOf(k)

NoObservation ==
    /\ last_query' = "none"
    /\ last_snapshot' = {}
    /\ pre_object' = Null
    /\ prev_result' = "none"

create_thread ==
    /\ ~dropped
    /\ \/ /\ Len(threads) < MaxThreads
          /\ \E h \in FreeHandleValues : CreateThreadOk(h)
          /\ last_result' = "Ok"
       \/ \* CreateThread failed: the ? at line 185 returns the error
          /\ UNCHANGED <<threads, closes, thread_handle, thread_uid>>
          /\ last_result' = "Err(CreateThread)"
    /\ last_op' = "create"
    /\ NoObservation
    /\ UNCHANGED <<thread_object, process_uid, dropped, my_pid, foreign>>
    /\ HoneyFrame

set_honey_thread_current_process ==
    /\ ~dropped
    /\ \/ /\ Len(threads) < MaxThreads
          /\ \E h \in FreeHandleValues : CreateThreadOk(h)
          /\ process_uid' = my_pid
          /\ last_result' = "Ok"
       \/ \* the ? at line 267 returns before process_uid is set
          /\ UNCHANGED <<threads, closes, thread_handle, thread_uid,
                         process_uid>>
          /\ last_result' = "Err(CreateThread)"
    /\ last_op' = "arm"
    /\ NoObservation
    /\ UNCHANGED <<thread_object, dropped, my_pid, foreign>>
    /\ HoneyFrame

(***************************************************************************)
(* Drop for HoneyThread, thread/mod.rs:124-134.                            *)
(***************************************************************************)
\* CloseHandle(h): the open handle of that value is closed
CloseHandle(h) ==
    [k \in 1..Len(closes) |->
        IF threads[k].handle = h /\ closes[k] = 0
        THEN closes[k] + 1 ELSE closes[k]]

drop ==
    /\ ~dropped
    /\ closes' = IF thread_handle # << >>
                 THEN CloseHandle(HandleValueOf(thread_handle))
                 ELSE closes
    /\ thread_object' = Null
    /\ process_uid' = 0
    /\ thread_uid' = 0
    /\ dropped' = TRUE
    /\ last_op' = "drop"
    /\ last_result' = "Ok"
    /\ NoObservation
    /\ UNCHANGED <<thread_handle, my_pid, threads, foreign>>
    /\ HoneyFrame

(***************************************************************************)
(* Other processes open and close handles.                                 *)
(***************************************************************************)
LiveObjects == {threads[k].object : k \in 1..Len(threads)} \cup {OtherObject}
ForeignEntries ==
    [pid : Pids \ {my_pid}, handle : ForeignHandleValues, object : LiveObjects]

EnvObserved ==
    /\ last_op' = "env"
    /\ last_result' = "none"
    /\ NoObservation

ForeignOpen ==
    /\ ~dropped
    /\ Cardinality(foreign) < MaxForeign
    /\ \E e \in ForeignEntries \ foreign : foreign' = foreign \cup {e}
    /\ EnvObserved
    /\ UNCHANGED <<thread_handle, thread_object, process_uid, thread_uid,
                   dropped, my_pid, threads, closes>>
    /\ HoneyFrame

ForeignClose ==
    /\ ~dropped
    /\ \E e \in foreign : foreign' = foreign \ {e}
    /\ EnvObserved
    /\ UNCHANGED <<thread_handle, thread_object, process_uid, thread_uid,
                   dropped, my_pid, threads, closes>>
    /\ HoneyFrame

\* HoneyThread::default(), thread/mod.rs:113-122
HoneyDefault ==
    /\ thread_handle = << >>
    /\ thread_object = Null
    /\ process_uid = 0
    /\ thread_uid = 0
    /\ dropped = FALSE
    /\ threads = << >>
    /\ closes = << >>
    /\ foreign = {}
    /\ last_op = "none"
    /\ last_result = "none"
    /\ last_query = "none"
    /\ last_snapshot = {}
    /\ pre_object = Null
    /\ prev_result = "none"


(***************************************************************************)
(* HoneyThread::query_system_information, thread/mod.rs:223-251, one loop  *)
(* iteration per step.  The kernel's table holds os_count entries; a       *)
(* snapshot of c entries takes Need(c) bytes.  The buffer is described by  *)
(* its capacity and by the number of entries of the last answer that lie   *)
(* inside the allocation.  q_n counts the queries issued (0, 1, 2 for two  *)
(* or more) and q_tick is the parity of the iteration, so that an          *)
(* iteration is a step even when it leaves every value as it was.          *)
(***************************************************************************)
Need(c) == HeaderSize + EntrySize * c
Fit(cap) == IF cap < HeaderSize THEN 0 ELSE (cap - HeaderSize) \div EntrySize
FitCount == Fit(InitialGuess)
Counts == (0..1) \cup {FitCount + k : k \in 0..MaxOver}
\* The length an answer reports is the kernel's at the moment it answered;
\* nothing makes it enough for the next call.
ReportedSizes == {Need(c) : c \in Counts}

\* NtQuerySystemInformation(SystemHandleInformation, ptr, size, &ret)
NtQuerySystemInformation(size, ret) ==
    {[status |-> "STATUS_SUCCESS", ret |-> Need(os_count), wrote |-> os_count]
        : x \in {1} \cap (IF size >= Need(os_count) THEN {1} ELSE {})}
    \cup {[status |-> "STATUS_INFO_LENGTH_MISMATCH", ret |-> r, wrote |-> 0]
        : r \in IF size < Need(os_count) THEN ReportedSizes ELSE {}}
    \cup {[status |-> "STATUS_ACCESS_DENIED", ret |-> ret, wrote |-> 0]}

\* a loop that goes on until the query succeeds
LoopContinuesUntilSuccess(st) == st # "STATUS_SUCCESS"

\* line 229: the loop condition
LoopContinues(st) == st = "STATUS_INFO_LENGTH_MISMATCH"

\* line 232: reserve on the cleared vector
Reserve(cap, size) == Max(cap, size)

\* lines 224-227
QStart ==
    /\ q_pc = "idle"
    /\ handle_info_size' = InitialGuess
    /\ buf_cap' = InitialGuess
    /\ buf_entries' = 0
    /\ status' = "STATUS_INFO_LENGTH_MISMATCH"
    /\ return_length' = 0
    /\ q_pc' = "loop"
    /\ UNCHANGED <<q_result, os_count, q_written, q_first_size, q_prev_ret,
                   q_n, q_tick>>
    /\ QueryFrame

\* lines 229-241: one iteration
QIter ==
    /\ q_pc = "loop"
    /\ LoopContinues(status)
    /\ LET size == return_length
           cap == Reserve(buf_cap, size)
       IN /\ handle_info_size' = size
          /\ buf_cap' = cap
          /\ \E a \in NtQuerySystemInformation(size, return_length) :
               /\ status' = a.status
               /\ return_length' = a.ret
               /\ q_written' = a.wrote
               /\ buf_entries' = Min(a.wrote, Fit(cap))
               /\ q_pc' = IF LoopContinues(a.status) THEN "loop" ELSE "exit"
          /\ q_first_size' = IF q_n = 0 THEN size ELSE q_first_size
          /\ q_prev_ret' = return_length
          /\ q_n' = Min(q_n + 1, 2)
          /\ q_tick' = 1 - q_tick
    /\ UNCHANGED <<q_result, os_count>>
    /\ QueryFrame

\* lines 243-250
QReturn ==
    /\ q_pc = "exit"
    /\ q_result' = IF status # "STATUS_SUCCESS" THEN "Err" ELSE "Ok"
    /\ q_pc' = "returned"
    /\ UNCHANGED <<handle_info_size, buf_cap, buf_entries, status,
                   return_length, os_count, q_written, q_first_size,
                   q_prev_ret, q_n, q_tick>>
    /\ QueryFrame

\* handles are opened and closed system-wide while the loop runs
OsTableChange ==
    /\ q_pc \in {"idle", "loop"}
    /\ \E c \in Counts \ {os_count} : os_count' = c
    /\ UNCHANGED <<q_pc, handle_info_size, buf_cap, buf_entries, status,
                   return_length, q_result, q_written, q_first_size,
                   q_prev_ret, q_n, q_tick>>
    /\ QueryFrame

QueryIdle ==
    /\ q_pc = "idle"
    /\ handle_info_size = 0
    /\ buf_cap = 0
    /\ buf_entries = 0
    /\ status = "none"
    /\ return_length = 0
    /\ q_result = "none"
    /\ q_written = 0
    /\ q_first_size = -1
    /\ q_prev_ret = 0
    /\ q_n = 0
    /\ q_tick = 0

(***************************************************************************)
(* nt_query/mod.rs.  An answer of NtQueryInformationProcess is its status  *)
(* and the value left in the output buffer, which the callers zero first   *)
(* (Default::default()) and the kernel writes on success only.  Values are *)
(* bit patterns, written as signed integers: -1 is INVALID_HANDLE_VALUE.   *)
(***************************************************************************)
NtValues == {0, 4, -1}
NtAnswers ==
    {[status |-> "STATUS_SUCCESS", value |-> v] : v \in NtValues}
    \cup {[status |-> st, value |-> 0]
            : st \in {"STATUS_PORT_NOT_SET", "STATUS_ACCESS_DENIED"}}

\* DebugPort::nt_query_debug_port, lines 74-103
nt_query_debug_port(a) ==
    IF a.status # "STATUS_SUCCESS" THEN "Err"
    ELSE IF a.value = 0 THEN "Ok(false)" ELSE "Ok(true)"

\* the match of both is_being_debug, lines 21-24 and 124-127
MatchErrFalse(r) ==
    IF r = "Err" THEN "false"
    ELSE IF r = "Ok(true)" THEN "true" ELSE "false"

\* BeingDebug for DebugPort, lines 18-26
DebugPort_is_being_debug(a) == MatchErrFalse(nt_query_debug_port(a))

\* HANDLE::is_invalid as line 168 uses it: the null and the -1 handle
HANDLE_is_invalid(h) == h = -1 \/ h = 0

\* a debug-object query that takes STATUS_PORT_NOT_SET for a failure
nt_query_debug_object_no_quirk(a) ==
    IF a.status # "STATUS_SUCCESS" THEN "Err"
    ELSE IF ~HANDLE_is_invalid(a.value) THEN "Ok(true)" ELSE "Ok(false)"

\* DebugObject::nt_query_debug_object, lines 132-169
nt_query_debug_object(a) ==
    IF a.status = "STATUS_PORT_NOT_SET" THEN "Ok(false)"
    ELSE IF a.status # "STATUS_SUCCESS" THEN "Err"
    ELSE IF ~HANDLE_is_invalid(a.value) THEN "Ok(true)" ELSE "Ok(false)"

\* BeingDebug for DebugObject, lines 121-129
DebugObject_is_being_debug(a) == MatchErrFalse(nt_query_debug_object(a))

\* NtQueryDebug::nt_query_core, lines 184-210
nt_query_core(a, query_type) ==
    IF a.status = "STATUS_PORT_NOT_SET" /\ query_type = "DebugObject"
    THEN [ok |-> TRUE, value |-> a.value]
    ELSE IF a.status # "STATUS_SUCCESS"
    THEN [ok |-> FALSE, value |-> 0]
    ELSE [ok |-> TRUE, value |-> a.value]

\* the match of the three check_ functions
MatchNonZero(r) == IF ~r.ok THEN FALSE ELSE IF r.value = 0 THEN FALSE ELSE TRUE

\* lines 212-220, 222-230, 232-240
check_debug_port(a) == MatchNonZero(nt_query_core(a, "DebugPort"))
check_debug_object(a) == MatchNonZero(nt_query_core(a, "DebugObject"))
check_debug_flags(a) == MatchNonZero(nt_query_core(a, "DebugFlags"))

\* an aggregate that reports as soon as one sub-check does
NtQueryDebug_is_being_debug_any(af, ao, ap) ==
    check_debug_flags(af) \/ check_debug_object(ao) \/ check_debug_port(ap)

\* BeingDebug for NtQueryDebug, lines 174-181
NtQueryDebug_is_being_debug(af, ao, ap) ==
    check_debug_flags(af) /\ check_debug_object(ao) /\ check_debug_port(ap)

BoolStr(b) == IF b THEN "true" ELSE "false"

NtAnswersKept == UNCHANGED <<nt_port, nt_object, nt_flags>>

CallNtQueryDebugPort ==
    /\ nt_op' = "nt_query_debug_port"
    /\ nt_result' = nt_query_debug_port(nt_port)
    /\ NtAnswersKept
    /\ NtFrame

CallDebugPortIsBeingDebug ==
    /\ nt_op' = "DebugPort.is_being_debug"
    /\ nt_result' = DebugPort_is_being_debug(nt_port)
    /\ NtAnswersKept
    /\ NtFrame

CallNtQueryDebugObject ==
    /\ nt_op' = "nt_query_debug_object"
    /\ nt_result' = nt_query_debug_object(nt_object)
    /\ NtAnswersKept
    /\ NtFrame

CallDebugObjectIsBeingDebug ==
    /\ nt_op' = "DebugObject.is_being_debug"
    /\ nt_result' = DebugObject_is_being_debug(nt_object)
    /\ NtAnswersKept
    /\ NtFrame

CallCheckDebugObject ==
    /\ nt_op' = "check_debug_object"
    /\ nt_result' = BoolStr(check_debug_object(nt_object))
    /\ NtAnswersKept
    /\ NtFrame

CallNtQueryDebugIsBeingDebug ==
    /\ nt_op' = "NtQueryDebug.is_being_debug"
    /\ nt_result' =
         BoolStr(NtQueryDebug_is_being_debug(nt_flags, nt_object, nt_port))
    /\ NtAnswersKept
    /\ NtFrame

NtIdle ==
    /\ nt_port = [status |-> "STATUS_SUCCESS", value |-> 0]
    /\ nt_object = [status |-> "STATUS_PORT_NOT_SET", value |-> 0]
    /\ nt_flags = [status |-> "STATUS_SUCCESS", value |-> 0]
    /\ nt_op = "none"
    /\ nt_result = "none"

(***************************************************************************)
(* breakpoint/mod.rs.  dr holds Dr0..Dr3 of the thread, which the kernel   *)
(* owns.  GetThreadContext and SetThreadContext transfer the register      *)
(* groups that the ContextFlags of the CONTEXT passed in select.           *)
(***************************************************************************)
Regs == 0..3
DrValues == 0..MaxDr

\* CONTEXT::default(): every field zero, ContextFlags included
CONTEXT_default == [ContextFlags |-> {}, Dr |-> [i \in Regs |-> 0]]

GetThreadContext(ctx) ==
    IF "CONTEXT_DEBUG_REGISTERS" \in ctx.ContextFlags
    THEN [ctx EXCEPT !.Dr = dr] ELSE ctx

SetThreadContext(ctx) ==
    IF "CONTEXT_DEBUG_REGISTERS" \in ctx.ContextFlags THEN ctx.Dr ELSE dr

\* BeingDebug for CONTEXT, lines 9-17
CONTEXT_is_being_debug(ctx) ==
    IF ctx.Dr[0] # 0 \/ ctx.Dr[1] # 0 \/ ctx.Dr[2] # 0 \/ ctx.Dr[3] # 0
    THEN TRUE ELSE FALSE

\* HardwareBreakPoint::is_hardware_breakpoint_set, lines 43-53
is_hardware_breakpoint_set ==
    /\ \E got \in BOOLEAN :
         bp_result' = IF ~got THEN "Err(GetThreadContext)"
                      ELSE IF CONTEXT_is_being_debug(
                                  GetThreadContext(CONTEXT_default))
                      THEN "Ok(true)" ELSE "Ok(false)"
    /\ bp_op' = "probe"
    /\ UNCHANGED <<dr, bp_cleaned>>
    /\ BpFrame

\* HardwareBreakPoint::clean_hardware_breakpoint, lines 65-78
clean_hardware_breakpoint ==
    /\ \E got \in BOOLEAN, set \in BOOLEAN :
         LET context == [GetThreadContext(CONTEXT_default)
                           EXCEPT !.Dr = [i \in Regs |-> 0]]
         IN IF ~got
            THEN /\ bp_result' = "Err(GetThreadContext)"
                 /\ UNCHANGED <<dr, bp_cleaned>>
            ELSE IF ~set
            THEN /\ bp_result' = "Err(SetThreadContext)"
                 /\ UNCHANGED <<dr, bp_cleaned>>
            ELSE /\ bp_result' = "Ok"
                 /\ dr' = SetThreadContext(context)
                 /\ bp_cleaned' = TRUE
    /\ bp_op' = "clean"
    /\ BpFrame

\* a debugger plants or removes a hardware breakpoint
DebuggerSetsRegister ==
    /\ \E i \in Regs : \E v \in DrValues \ {dr[i]} :
         dr' = [dr EXCEPT ![i] = v]
    /\ bp_op' = "env"
    /\ bp_result' = "none"
    /\ bp_cleaned' = FALSE
    /\ BpFrame

BpIdle ==
    /\ dr = [i \in Regs |-> 0]
    /\ bp_op = "none"
    /\ bp_result = "none"
    /\ bp_cleaned = FALSE

(***************************************************************************)
(* peb/mod.rs.  The PEB is read in place at the address get_peb_address    *)
(* returns; the heap is read in place at the address held in               *)
(* PEB.ProcessHeap or returned by GetProcessHeap.                          *)
(***************************************************************************)
BeingDebuggedValues == {0, 1, 255}
NtGlobalFlagValues == {0, 112, 113}
HeapAddresses == {65536, 131072}
HeapFlagsValues == {0, 2, 1073741922}
HeapForceFlagsValues == {0, 1073741920}

\* the PEB as the probes see it through &WinPeb
WinPeb ==
    [being_debugged |-> being_debugged, process_heap |-> process_heap,
     nt_global_flag |-> nt_global_flag]

\* impl BeingDebug for WinPeb, lines 60-68
WinPeb_is_being_debug(peb) ==
    IF peb.being_debugged = 0 /\ peb.nt_global_flag # 112 THEN FALSE ELSE TRUE

\* lines 191-198
peb_being_debugged_asm == WinPeb_is_being_debug(WinPeb)

\* lines 218-225
peb_nt_global_flag_asm == WinPeb_is_being_debug(WinPeb)

\* IsDebuggerPresent reads PEB.BeingDebugged; lines 169-171
peb_being_debugged == being_debugged # 0

\* a heap reader that calls the heap clean when either field looks clean
WinProcessHeap_is_being_debug_either(heap) ==
    IF heap.flags = 2 \/ heap.force_flags = 0 THEN FALSE ELSE TRUE

\* impl BeingDebug for WinProcessHeap, lines 97-105
WinProcessHeap_is_being_debug(heap) ==
    IF heap.flags = 2 /\ heap.force_flags = 0 THEN FALSE ELSE TRUE

\* AsRef<WinProcessHeap> for WinPeb (120-124) and for HANDLE (113-118):
\* the heap at that address
WinProcessHeapAt(address) == heap_memory[address]

OkStr(b) == IF b THEN "Ok(true)" ELSE "Ok(false)"

\* lines 243-264
peb_process_heap_asm ==
    IF WinPeb.process_heap = Null THEN "Err(ProcessHeapNull)"
    ELSE OkStr(WinProcessHeap_is_being_debug(
                  WinProcessHeapAt(WinPeb.process_heap)))

\* GetProcessHeap returns the default heap of the process, PEB.ProcessHeap
GetProcessHeap == process_heap

\* lines 292-303; the ? at line 293 returns the error of an invalid handle
peb_process_heap ==
    LET heap_handle == GetProcessHeap
    IN IF HANDLE_is_invalid(heap_handle) THEN "Err(GetProcessHeap)"
       ELSE OkStr(WinProcessHeap_is_being_debug(WinProcessHeapAt(heap_handle)))

PebKept ==
    UNCHANGED <<being_debugged, process_heap, nt_global_flag, heap_memory>>

CallPebBeingDebugged ==
    /\ peb_result' =
         [peb_result EXCEPT !.being_debugged = BoolStr(peb_being_debugged)]
    /\ PebKept
    /\ PebFrame

CallPebBeingDebuggedAsm ==
    /\ peb_result' = [peb_result EXCEPT
                        !.being_debugged_asm = BoolStr(peb_being_debugged_asm)]
    /\ PebKept
    /\ PebFrame

CallPebNtGlobalFlagAsm ==
    /\ peb_result' = [peb_result EXCEPT
                        !.nt_global_flag_asm = BoolStr(peb_nt_global_flag_asm)]
    /\ PebKept
    /\ PebFrame

CallPebProcessHeapAsm ==
    /\ peb_result' =
         [peb_result EXCEPT !.process_heap_asm = peb_process_heap_asm]
    /\ PebKept
    /\ PebFrame

CallPebProcessHeap ==
    /\ peb_result' = [peb_result EXCEPT !.process_heap = peb_process_heap]
    /\ PebKept
    /\ PebFrame

NoPebResult ==
    [being_debugged |-> "none", being_debugged_asm |-> "none",
     nt_global_flag_asm |-> "none", process_heap_asm |-> "none",
     process_heap |-> "none"]

CleanHeap == [flags |-> 2, force_flags |-> 0]

PebIdle ==
    /\ being_debugged = 0
    /\ process_heap = 65536
    /\ nt_global_flag = 0
    /\ heap_memory = [a \in HeapAddresses |-> CleanHeap]
    /\ peb_result = NoPebResult

(***************************************************************************)
(* exception.rs.  A handler is named by the object it wraps.               *)
(***************************************************************************)
BeingDebugObjects == {"DebugPort", "DebugObject", "NtQueryDebug"}

NoHandler == [kind |-> "none", index |-> -1, handler |-> "-"]
None == [kind |-> "None", index |-> -1, handler |-> "-"]
Some(index, handler) == [kind |-> "Some", index |-> index, handler |-> handler]

\* line 13: self.handlers.push(Box::new(move || obj.is_being_debug()))
register_handler ==
    /\ Len(handlers) < MaxHandlers
    /\ \E obj \in BeingDebugObjects : handlers' = Append(handlers, obj)
    /\ ex_op' = "register_handler"
    /\ ex_result' = NoHandler
    /\ ex_prev' = handlers
    /\ ExFrame

\* a selection that takes a single handler for none
rand_handlers_none_when_single(hs) ==
    IF Len(hs) <= 1 THEN {None}
    ELSE {Some(index, hs[index + 1]) : index \in 0..(Len(hs) - 1)}

\* lines 17-26: what the call may return, one result per index the
\* generator may draw from 0..self.handlers.len()
rand_handlers_results(hs) ==
    IF hs = << >> THEN {None}
    ELSE {Some(index, hs[index + 1]) : index \in 0..(Len(hs) - 1)}

rand_handlers ==
    /\ ex_result' \in rand_handlers_results(handlers)
    /\ ex_op' = "rand_handlers"
    /\ ex_prev' = handlers
    /\ UNCHANGED handlers
    /\ ExFrame

ExIdle ==
    /\ handlers = << >>
    /\ ex_op = "none"
    /\ ex_result = NoHandler
    /\ ex_prev = << >>

(***************************************************************************)
(* Specifications, one per component; the other components stay idle.      *)
(***************************************************************************)
\* the correlator
Init ==
    /\ my_pid \in MyPids
    /\ HoneyDefault
    /\ QueryIdle /\ os_count = 0
    /\ NtIdle
    /\ BpIdle
    /\ PebIdle
    /\ ExIdle

Next ==
    \/ set_honey_thread_current_process
    \/ create_thread
    \/ check
    \/ drop
    \/ ForeignOpen
    \/ ForeignClose

Spec == Init /\ [][Next]_vars

\* the buffer-growth loop; the function runs to its end unless it loops
InitQuery ==
    /\ my_pid = 8
    /\ HoneyDefault
    /\ QueryIdle /\ os_count \in Counts
    /\ NtIdle
    /\ BpIdle
    /\ PebIdle
    /\ ExIdle

StepQuery == QStart \/ QIter \/ QReturn
NextQuery == StepQuery \/ OsTableChange

SpecQuery == InitQuery /\ [][NextQuery]_vars /\ WF_vars(StepQuery)

\* the process-information probes, over every answer of the three queries
InitNt ==
    /\ my_pid = 8
    /\ HoneyDefault
    /\ QueryIdle /\ os_count = 0
    /\ nt_port \in NtAnswers
    /\ nt_object \in NtAnswers
    /\ nt_flags \in NtAnswers
    /\ nt_op = "none"
    /\ nt_result = "none"
    /\ BpIdle
    /\ PebIdle
    /\ ExIdle

NextNt ==
    \/ CallNtQueryDebugPort
    \/ CallDebugPortIsBeingDebug
    \/ CallNtQueryDebugObject
    \/ CallDebugObjectIsBeingDebug
    \/ CallCheckDebugObject
    \/ CallNtQueryDebugIsBeingDebug

SpecNt == InitNt /\ [][NextNt]_vars

\* the hardware breakpoint probe and its mitigation
InitBp ==
    /\ my_pid = 8
    /\ HoneyDefault
    /\ QueryIdle /\ os_count = 0
    /\ NtIdle
    /\ BpIdle
    /\ PebIdle
    /\ ExIdle

NextBp ==
    \/ is_hardware_breakpoint_set
    \/ clean_hardware_breakpoint
    \/ DebuggerSetsRegister

SpecBp == InitBp /\ [][NextBp]_vars

\* the PEB and heap probes, over every content of the PEB and of the heaps
InitPeb ==
    /\ my_pid = 8
    /\ HoneyDefault
    /\ QueryIdle /\ os_count = 0
    /\ NtIdle
    /\ BpIdle
    /\ being_debugged \in BeingDebuggedValues
    /\ process_heap \in {Null} \cup HeapAddresses
    /\ nt_global_flag \in NtGlobalFlagValues
    /\ heap_memory \in [HeapAddresses ->
                          [flags : HeapFlagsValues,
                           force_flags : HeapForceFlagsValues]]
    /\ peb_result = NoPebResult
    /\ ExIdle

NextPeb ==
    \/ CallPebBeingDebugged
    \/ CallPebBeingDebuggedAsm
    \/ CallPebNtGlobalFlagAsm
    \/ CallPebProcessHeapAsm
    \/ CallPebProcessHeap

SpecPeb == InitPeb /\ [][NextPeb]_vars

\* the handler registry
InitException ==
    /\ my_pid = 8
    /\ HoneyDefault
    /\ QueryIdle /\ os_count = 0
    /\ NtIdle
    /\ BpIdle
    /\ PebIdle
    /\ ExIdle

NextException ==
    \/ register_handler
    \/ rand_handlers

SpecException == InitException /\ [][NextException]_vars


(***************************************************************************)
(* Properties of the honeypot correlator (Spec).                           *)
(***************************************************************************)
Verdicts == {"Ok(true)", "Ok(false)"}

\* the entries of the last snapshot held by another process on object obj
ForeignHolders(obj) ==
    {e \in last_snapshot :
        e.unique_process_id # process_uid /\ e.object = obj}

\* the entries of the last snapshot that are (this process, honeypot handle)
OwnThreadEntries ==
    {e \in last_snapshot :
        /\ e.unique_process_id = process_uid
        /\ e.handle_value = HandleValueOf(thread_handle)}

\* C1: when check ran on an armed instance, obtained the snapshot and the
\* thread object is resolved, it returned Ok(true) if the snapshot holds an
\* entry of another process id on thread_object, and Ok(false) if it holds
\* none.
C1_VerdictIffForeignHolder ==
    (last_op = "check" /\ last_query = "ok" /\ thread_object # Null)
        => last_result = IF ForeignHolders(thread_object) # {}
                         THEN "Ok(true)" ELSE "Ok(false)"

\* C1 witness: a check on an instance resolved before the call finds a
\* foreign holder and returns Ok(true).
C1_Witness ==
    /\ last_op = "check"
    /\ pre_object # Null
    /\ last_query = "ok"
    /\ ForeignHolders(thread_object) # {}
    /\ last_result = "Ok(true)"

\* C2: when the resolution step ran (thread_object was null on entry and the
\* snapshot was obtained): if the snapshot holds an entry for (this process
\* id, the honeypot handle value), thread_object is the object address of
\* such an entry and check went on to a verdict; if it holds none, check
\* returned the object-not-found error, no verdict, and thread_object is
\* still null.
C2_ResolutionStep ==
    (last_op = "check" /\ last_query = "ok" /\ pre_object = Null)
        => IF OwnThreadEntries # {}
           THEN /\ thread_object \in {e.object : e \in OwnThreadEntries}
                /\ last_result \in Verdicts
           ELSE /\ last_result = "Err(ObjectNotFound)"
                /\ thread_object = Null

\* C2 witness: a check resolves the object from the snapshot in the presence
\* of entries of other processes.
C2_Witness ==
    /\ last_op = "check"
    /\ last_query = "ok"
    /\ pre_object = Null
    /\ OwnThreadEntries # {}
    /\ thread_object # Null
    /\ Cardinality(last_snapshot) > 1

\* C3: every handle the instance acquired is closed exactly once, by Drop:
\* none is closed before the drop, none more than once, and after the drop
\* none is left open.
C3_EveryHandleClosedOnce ==
    \A k \in 1..Len(threads) :
        /\ closes[k] <= 1
        /\ ~dropped => closes[k] = 0
        /\ dropped => closes[k] = 1

\* C6: a check call changes no field of the instance but thread_object, and
\* that only from null to the resolved address; and a check that directly
\* follows a check, with the table unchanged and the snapshot query
\* answering as before, returns the same result.
C6_CheckIdempotent ==
    [][last_op' = "check" =>
         /\ thread_handle' = thread_handle
         /\ process_uid' = process_uid
         /\ thread_uid' = thread_uid
         /\ (thread_object' # thread_object => thread_object = Null)
         /\ (last_op = "check" /\ last_query' = last_query)
                => last_result' = last_result]_vars

\* C6 witness: two checks in a row, the first of which resolved the object,
\* both returning the verdict Ok(true).
C6_Witness ==
    /\ last_op = "check"
    /\ prev_result = "Ok(true)"
    /\ last_result = "Ok(true)"
    /\ pre_object # Null

\* C13: an arming call during which no thread was created returned an
\* error and left thread_handle, thread_uid, process_uid and thread_object
\* as they were; and a check on an instance without a thread handle or
\* without a process id returned the instance error, did not query the
\* handle table and left the four fields as they were.
C13_FailedArmAndUnarmedCheck ==
    [][/\ (last_op' = "arm" /\ threads' = threads)
            => /\ last_result' = "Err(CreateThread)"
               /\ UNCHANGED <<thread_handle, thread_uid, process_uid,
                              thread_object>>
       /\ (last_op' = "check" /\ (thread_handle = << >> \/ process_uid = 0))
            => /\ last_result' = "Err(InstanceValue)"
               /\ last_query' = "none"
               /\ UNCHANGED <<thread_handle, thread_uid, process_uid,
                              thread_object>>]_vars

\* C13 witness: a check ran on an instance that holds a thread handle (from
\* create_thread) but no process id, with entries of other processes in the
\* table, and returned the instance error without a query.
C13_Witness ==
    /\ last_op = "check"
    /\ thread_handle # << >>
    /\ process_uid = 0
    /\ last_result = "Err(InstanceValue)"
    /\ last_query = "none"
    /\ foreign # {}

\* the open threads the instance's current handle refers to
CurrentThreads ==
    {k \in OpenThreads : threads[k].handle = HandleValueOf(thread_handle)}

\* a check returned a verdict by comparing against the object of the first
\* thread while the instance holds the handle of the second
StaleVerdict ==
    /\ last_op = "check"
    /\ last_result \in Verdicts
    /\ Len(threads) = 2
    /\ thread_handle = <<threads[2].handle>>
    /\ thread_object = threads[1].object

\* C15: a non-null thread_object is the kernel object address of the thread
\* the instance's current thread_handle refers to, after any sequence of
\* arming and check calls; in particular no check after a re-arm compares
\* against the previous thread's object address.
C15_ObjectOfCurrentThread ==
    /\ (~dropped /\ thread_handle # << >> /\ thread_object # Null)
          => \A k \in CurrentThreads : thread_object = threads[k].object
    /\ ~StaleVerdict

\* the handles other processes hold on object obj, by their full process id
TrueForeignHolders(obj) == {e \in foreign : e.pid # my_pid /\ e.object = obj}

\* C16: resolution and verdict are right for every 32-bit process id and
\* every handle value: when check obtained the snapshot and ran the
\* resolution, thread_object is the object of the honeypot thread (its own
\* entry was not missed and no other entry was taken for it), and a verdict
\* is Ok(true) exactly when a process other than this one holds a handle on
\* that object.
C16_CorrectBeyond16Bits ==
    (last_op = "check" /\ last_query = "ok" /\ pre_object = Null)
        => /\ \A k \in CurrentThreads : thread_object = threads[k].object
           /\ last_result \in Verdicts
           /\ last_result = "Ok(true)"
                <=> TrueForeignHolders(thread_object) # {}

(***************************************************************************)
(* Properties of the buffer-growth loop (SpecQuery).                       *)
(***************************************************************************)
\* C4: the first query passes the initial guess; every later query passes
\* the size the answer before it reported; the loop ends at the first answer
\* that is not "buffer too small"; the function returns Ok on success and an
\* error on any other status.
C4_GrowthProtocol ==
    /\ q_n >= 1 => q_first_size = InitialGuess
    /\ q_n >= 2 => handle_info_size = q_prev_ret
    /\ (q_pc = "loop" /\ q_n >= 1) => status = "STATUS_INFO_LENGTH_MISMATCH"
    /\ q_pc \in {"exit", "returned"} => status # "STATUS_INFO_LENGTH_MISMATCH"
    /\ q_pc = "returned"
          => q_result = IF status = "STATUS_SUCCESS" THEN "Ok" ELSE "Err"

\* when the function returned Ok, the buffer holds every entry the kernel
\* wrote, which are the entries of the table at the final query
C5_NoDataLoss ==
    (q_pc = "returned" /\ q_result = "Ok")
        => /\ buf_entries = q_written
           /\ q_written = os_count
           /\ Need(q_written) <= buf_cap

C5_Returned == q_pc = "returned"
C5_StillTooSmall ==
    q_pc = "loop" /\ q_n >= 1 /\ status = "STATUS_INFO_LENGTH_MISMATCH"

\* C5 as stated: the function always returns, whatever sizes the kernel
\* reports, and loses no entry.
C5_AlwaysTerminates == []C5_NoDataLoss /\ <>C5_Returned

\* C5 as amended: no entry is lost, and the function returns unless the
\* kernel answers "buffer too small" again and again without end.
C5_TerminatesUnlessTooSmallForever ==
    []C5_NoDataLoss /\ (<>C5_Returned \/ []<>C5_StillTooSmall)

\* C5 witness: a snapshot larger than the initial buffer came back Ok after
\* more than one query.
C5_Witness ==
    /\ q_pc = "returned"
    /\ q_result = "Ok"
    /\ q_n >= 2
    /\ Need(q_written) > InitialGuess
    /\ buf_entries = q_written

(***************************************************************************)
(* Properties of the process-information probes (SpecNt).                  *)
(***************************************************************************)
CleanResults == {"false", "Ok(false)"}

\* C7: no operation that evaluates the debug-port or the debug-object
\* detector yields the clean verdict when its query returned a failure
\* status (for the object query, STATUS_PORT_NOT_SET is the clean answer,
\* not a failure).
C7_FailureNeverClean ==
    /\ (/\ nt_op \in {"nt_query_debug_port", "DebugPort.is_being_debug"}
        /\ nt_port.status # "STATUS_SUCCESS")
            => nt_result \notin CleanResults
    /\ (/\ nt_op \in {"nt_query_debug_object", "DebugObject.is_being_debug"}
        /\ nt_object.status \notin {"STATUS_SUCCESS", "STATUS_PORT_NOT_SET"})
            => nt_result \notin CleanResults

\* C8: nt_query_debug_object returns Ok(false) on STATUS_PORT_NOT_SET,
\* Ok(true) on success with a handle that is neither null nor the sentinel,
\* Ok(false) on success with the invalid-handle sentinel, Err on any other
\* status.
C8_DebugObjectCases ==
    nt_op = "nt_query_debug_object" =>
        /\ nt_object.status = "STATUS_PORT_NOT_SET" => nt_result = "Ok(false)"
        /\ (nt_object.status = "STATUS_SUCCESS"
                /\ nt_object.value \notin {0, -1}) => nt_result = "Ok(true)"
        /\ (nt_object.status = "STATUS_SUCCESS" /\ nt_object.value = -1)
                => nt_result = "Ok(false)"
        /\ nt_object.status \notin {"STATUS_SUCCESS", "STATUS_PORT_NOT_SET"}
                => nt_result = "Err"

\* C8 witness: a successful query that returned the sentinel is clean.
C8_Witness ==
    /\ nt_op = "nt_query_debug_object"
    /\ nt_object = [status |-> "STATUS_SUCCESS", value |-> -1]
    /\ nt_result = "Ok(false)"

SubCheckObserved(a) == a.status = "STATUS_SUCCESS" /\ a.value # 0

\* C9: the aggregate is true exactly when each of the three queries
\* succeeded and reported a non-zero value.
C9_AggregateIsConjunction ==
    nt_op = "NtQueryDebug.is_being_debug" =>
        (nt_result = "true" <=> /\ SubCheckObserved(nt_flags)
                                /\ SubCheckObserved(nt_object)
                                /\ SubCheckObserved(nt_port))

\* C9 witness: two sub-checks report a debugger, the third query fails, and
\* the aggregate is false.
C9_Witness ==
    /\ nt_op = "NtQueryDebug.is_being_debug"
    /\ SubCheckObserved(nt_flags)
    /\ SubCheckObserved(nt_object)
    /\ nt_port.status = "STATUS_ACCESS_DENIED"
    /\ nt_result = "false"

\* C17: on every answer of the debug-object query, check_debug_object
\* returned true exactly when nt_query_debug_object returns Ok(true) on that
\* answer, and nt_query_debug_object returned Ok(true) exactly when
\* check_debug_object returns true on it.
C17_SubCheckAgreesWithProbe ==
    /\ nt_op = "check_debug_object"
         => (nt_result = "true"
               <=> nt_query_debug_object(nt_object) = "Ok(true)")
    /\ nt_op = "nt_query_debug_object"
         => (nt_result = "Ok(true)" <=> check_debug_object(nt_object))

(***************************************************************************)
(* Properties of the hardware breakpoint probe (SpecBp).                   *)
(***************************************************************************)
AnyBreakpoint == \E i \in Regs : dr[i] # 0

\* C10: a probe that returned a verdict returned Ok(true) when one of
\* Dr0..Dr3 of the thread is non-zero and Ok(false) when all are zero; after
\* a successful clean all four are zero, and a probe that follows returns
\* Ok(false).
C10_ProbeAndClean ==
    /\ (bp_op = "probe" /\ bp_result \in Verdicts)
          => bp_result = IF AnyBreakpoint THEN "Ok(true)" ELSE "Ok(false)"
    /\ (bp_op = "clean" /\ bp_result = "Ok") => ~AnyBreakpoint
    /\ bp_cleaned => ~AnyBreakpoint

(***************************************************************************)
(* Properties of the PEB and heap probes (SpecPeb).                        *)
(***************************************************************************)
\* C11: each PEB probe reports on its own field only:
\* peb_being_debugged_asm returned true exactly when PEB.BeingDebugged is
\* not zero, and peb_nt_global_flag_asm returned true exactly when
\* PEB.NtGlobalFlag is 0x70, whatever the other field holds.
C11_EachProbeOwnField ==
    /\ peb_result.being_debugged_asm # "none"
         => (peb_result.being_debugged_asm = "true" <=> being_debugged # 0)
    /\ peb_result.nt_global_flag_asm # "none"
         => (peb_result.nt_global_flag_asm = "true" <=> nt_global_flag = 112)

C14_RegistrySelection ==
    /\ ex_op = "rand_handlers"
         => /\ ex_result.kind \in {"None", "Some"}
            /\ ex_result.kind = "None" <=> Len(handlers) = 0
            /\ ex_result.kind = "Some"
                 => /\ ex_result.index \in 0..(Len(handlers) - 1)
                    /\ ex_result.handler = handlers[ex_result.index + 1]
            /\ handlers = ex_prev
    /\ ex_op = "register_handler"
         => /\ Len(handlers) = Len(ex_prev) + 1
            /\ SubSeq(handlers, 1, Len(ex_prev)) = ex_prev

\* C14 witness: with one handler registered, rand_handlers returned it.
C14_Witness ==
    /\ ex_op = "rand_handlers"
    /\ Len(handlers) = 1
    /\ ex_result = Some(0, handlers[1])

====
